---- MODULE Spec2Model ----
(***************************************************************************)
(* Model of the Zotero duplicate detection script                          *)
(* (zotero-duplicate-enhanced/src/duplicate_enhanced.js, v2.2).            *)
(*                                                                         *)
(* Strings are sequences of one-character strings ("" is <<>>).  Numbers   *)
(* that the script keeps as IEEE doubles are exact rationals <<n, d>> with *)
(* d > 0, in lowest terms: the model follows the arithmetic of the code    *)
(* without its rounding.                                                   *)
(***************************************************************************)
EXTENDS Integers, Sequences, FiniteSets, TLC

(***************************************************************************)
(* Exact rational arithmetic.                                              *)
(***************************************************************************)
RECURSIVE GCD(_, _)
GCD(a, b) ==
    IF b = 0 THEN a ELSE GCD(b, a % b)

Abs(x) ==
    IF x < 0 THEN -x ELSE x

Rat(n, d) ==
    LET g == GCD(Abs(n), d) IN <<n \div g, d \div g>>

RZero ==
    <<0, 1>>

ROne ==
    <<1, 1>>

RAdd(p, q) ==
    Rat(p[1] * q[2] + q[1] * p[2], p[2] * q[2])

RSub(p, q) ==
    Rat(p[1] * q[2] - q[1] * p[2], p[2] * q[2])

RMul(p, q) ==
    Rat(p[1] * q[1], p[2] * q[2])

\* p / q for q > 0
RDiv(p, q) ==
    Rat(p[1] * q[2], p[2] * q[1])

RLess(p, q) ==
    p[1] * q[2] < q[1] * p[2]

RGeq(p, q) ==
    ~RLess(p, q)

RMax(p, q) ==
    IF RLess(p, q) THEN q ELSE p

RMin(p, q) ==
    IF RLess(q, p) THEN q ELSE p

\* The sum of a sequence of rationals
RECURSIVE RSum(_)
RSum(q) ==
    IF q = <<>> THEN RZero ELSE RAdd(Head(q), RSum(Tail(q)))

\* Math.floor of a rational
RFloor(p) ==
    p[1] \div p[2]

(***************************************************************************)
(* Characters.                                                             *)
(***************************************************************************)
UpperChars ==
    <<"A", "B", "C", "D", "E", "F", "G", "H", "I", "J", "K", "L", "M",
      "N", "O", "P", "Q", "R", "S", "T", "U", "V", "W", "X", "Y", "Z">>

LowerChars ==
    <<"a", "b", "c", "d", "e", "f", "g", "h", "i", "j", "k", "l", "m",
      "n", "o", "p", "q", "r", "s", "t", "u", "v", "w", "x", "y", "z">>

DigitChars ==
    <<"0", "1", "2", "3", "4", "5", "6", "7", "8", "9">>

\* The characters of the model in UTF-16 code unit order.
CodeOrder ==
    <<" ", "-", ".", "/">> \o DigitChars \o <<":">> \o UpperChars
        \o <<"_">> \o LowerChars

Range(s) ==
    {s[k] : k \in DOMAIN s}

IndexOf(s, c) ==
    CHOOSE k \in DOMAIN s : s[k] = c

CharCode(c) ==
    IndexOf(CodeOrder, c)

IsUpper(c) ==
    c \in Range(UpperChars)

IsDigit(c) ==
    c \in Range(DigitChars)

\* \s of the regular expressions (the model's only white space is " ")
IsSpace(c) ==
    c = " "

\* \w of the regular expressions
IsWordChar(c) ==
    c \in Range(UpperChars) \cup Range(LowerChars) \cup Range(DigitChars) \cup {"_"}

toLowerCase(s) ==
    [k \in DOMAIN s |->
        IF IsUpper(s[k]) THEN LowerChars[IndexOf(UpperChars, s[k])] ELSE s[k]]

toUpperCase(s) ==
    [k \in DOMAIN s |->
        IF s[k] \in Range(LowerChars) THEN UpperChars[IndexOf(LowerChars, s[k])]
        ELSE s[k]]

RECURSIVE trimStart(_)
trimStart(s) ==
    IF s # <<>> /\ IsSpace(Head(s)) THEN trimStart(Tail(s)) ELSE s

RECURSIVE trimEnd(_)
trimEnd(s) ==
    IF s # <<>> /\ IsSpace(s[Len(s)]) THEN trimEnd(SubSeq(s, 1, Len(s) - 1)) ELSE s

trim(s) ==
    trimEnd(trimStart(s))

\* s.startsWith(p)
StartsWith(s, p) ==
    Len(s) >= Len(p) /\ SubSeq(s, 1, Len(p)) = p

\* a < b in the order of Array.prototype.sort without a comparator
RECURSIVE StrLess(_, _)
StrLess(a, b) ==
    IF b = <<>> THEN FALSE
    ELSE IF a = <<>> THEN TRUE
    ELSE IF Head(a) = Head(b) THEN StrLess(Tail(a), Tail(b))
    ELSE CharCode(Head(a)) < CharCode(Head(b))

(***************************************************************************)
(* Field normalization.                                                    *)
(***************************************************************************)
\* The character class of normalizeField's first replace
PunctChars ==
    {".", ",", "/", "#", "!", "$", "%", "^", "&", "*", ";", ":", "{", "}",
     "=", "-", "_", "`", "~", "(", ")", "[", "]", "\"", "'"}

\* s.replace(/\s+/g, ' ')
RECURSIVE CollapseSpaces(_)
CollapseSpaces(s) ==
    IF s = <<>> THEN <<>>
    ELSE IF IsSpace(Head(s))
         THEN <<" ">> \o CollapseSpaces(trimStart(s))
         ELSE <<Head(s)>> \o CollapseSpaces(Tail(s))

normalizeField(field) ==
    IF field = <<>> THEN <<>>
    ELSE trim(toLowerCase(CollapseSpaces(
            [k \in DOMAIN field |->
                IF field[k] \in PunctChars THEN " " ELSE field[k]])))

\* length of the run of digits that s starts with
RECURSIVE DigitRun(_)
DigitRun(s) ==
    IF s # <<>> /\ IsDigit(Head(s)) THEN 1 + DigitRun(Tail(s)) ELSE 0

\* length of the run of non-white-space characters that s starts with
RECURSIVE NonSpaceRun(_)
NonSpaceRun(s) ==
    IF s # <<>> /\ ~IsSpace(Head(s)) THEN 1 + NonSpaceRun(Tail(s)) ELSE 0

\* Last index of a match of /10\.\d{4,}\/[^\s]+/ that starts at index k, or 0
DOIMatchEnd(s, k) ==
    LET digits == DigitRun(SubSeq(s, k + 3, Len(s)))
        slash  == k + 3 + digits
        rest   == NonSpaceRun(SubSeq(s, slash + 1, Len(s)))
    IN  IF /\ StartsWith(SubSeq(s, k, Len(s)), <<"1", "0", ".">>)
           /\ digits >= 4
           /\ slash <= Len(s)
           /\ s[slash] = "/"
           /\ rest >= 1
        THEN slash + rest
        ELSE 0

normalizeDOI(doi) ==
    IF doi = <<>> THEN <<>>
    ELSE LET starts == {k \in DOMAIN doi : DOIMatchEnd(doi, k) > 0}
         IN  IF starts = {} THEN <<>>
             ELSE LET k == CHOOSE m \in starts : \A o \in starts : m <= o
                  IN  toLowerCase(SubSeq(doi, k, DOIMatchEnd(doi, k)))

normalizeISBN(isbn) ==
    IF isbn = <<>> THEN <<>>
    ELSE toUpperCase(SelectSeq(isbn, LAMBDA c : IsDigit(c) \/ c \in {"X", "x"}))

\* s.replace(/\/+$/, '')
RECURSIVE StripTrailingSlashes(_)
StripTrailingSlashes(s) ==
    IF s # <<>> /\ s[Len(s)] = "/"
    THEN StripTrailingSlashes(SubSeq(s, 1, Len(s) - 1))
    ELSE s

\* s.replace(/^https?:\/\//, '')
StripProtocol(s) ==
    LET http  == <<"h", "t", "t", "p", ":", "/", "/">>
        https == <<"h", "t", "t", "p", "s", ":", "/", "/">>
    IN  IF StartsWith(s, http) THEN SubSeq(s, Len(http) + 1, Len(s))
        ELSE IF StartsWith(s, https) THEN SubSeq(s, Len(https) + 1, Len(s))
        ELSE s

normalizeURL(url) ==
    IF url = <<>> THEN <<>>
    ELSE toLowerCase(StripTrailingSlashes(StripProtocol(url)))

\* Array.prototype.sort() of strings: insertion into a sorted sequence
RECURSIVE InsertSorted(_, _)
InsertSorted(sorted, x) ==
    IF sorted = <<>> THEN <<x>>
    ELSE IF StrLess(x, Head(sorted)) THEN <<x>> \o sorted
    ELSE <<Head(sorted)>> \o InsertSorted(Tail(sorted), x)

RECURSIVE SortStrings(_)
SortStrings(names) ==
    IF names = <<>> THEN <<>>
    ELSE InsertSorted(SortStrings(SubSeq(names, 1, Len(names) - 1)),
                      names[Len(names)])

\* names.join(' ')
RECURSIVE JoinWithSpace(_)
JoinWithSpace(names) ==
    IF names = <<>> THEN <<>>
    ELSE IF Len(names) = 1 THEN names[1]
    ELSE names[1] \o <<" ">> \o JoinWithSpace(Tail(names))

creatorName(c) ==
    trim(toLowerCase(
        c.firstName \o <<" ">>
            \o (IF c.lastName # <<>> THEN c.lastName ELSE c.name)))

normalizeCreators(creators) ==
    IF creators = <<>> THEN <<>>
    ELSE JoinWithSpace(SortStrings(SelectSeq(
            [k \in DOMAIN creators |-> creatorName(creators[k])],
            LAMBDA n : Len(n) > 0)))

\* a match of /\b(19|20)\d{2}\b/ starts at index k
YearMatchAt(s, k) ==
    /\ k + 3 <= Len(s)
    /\ SubSeq(s, k, k + 1) \in {<<"1", "9">>, <<"2", "0">>}
    /\ IsDigit(s[k + 2])
    /\ IsDigit(s[k + 3])
    /\ (k = 1 \/ ~IsWordChar(s[k - 1]))
    /\ (k + 3 = Len(s) \/ ~IsWordChar(s[k + 4]))

extractYear(dateStr) ==
    IF dateStr = <<>> THEN <<>>
    ELSE LET starts == {k \in DOMAIN dateStr : YearMatchAt(dateStr, k)}
         IN  IF starts = {} THEN <<>>
             ELSE LET k == CHOOSE m \in starts : \A o \in starts : m <= o
                  IN  SubSeq(dateStr, k, k + 3)

\* The raw record is a record of what item.getField(...), item.itemType and
\* item.getCreators() return; item.unusable names the accessors whose value
\* cannot be normalized (the accessor throws, or returns a non-string).
normalizeItemFieldsThrows(item) ==
    item.unusable # {}

normalizeItemFields(item) ==
    [id         |-> item.id,
     originalItem |-> item.id,
     title      |-> normalizeField(item.title),
     shortTitle |-> normalizeField(item.shortTitle),
     date       |-> normalizeField(item.date),
     publisher  |-> normalizeField(item.publisher),
     place      |-> normalizeField(item.place),
     journal    |-> normalizeField(IF item.publicationTitle # <<>>
                                   THEN item.publicationTitle
                                   ELSE item.journalAbbreviation),
     DOI        |-> normalizeDOI(item.DOI),
     ISBN       |-> normalizeISBN(item.ISBN),
     URL        |-> normalizeURL(item.url),
     itemType   |-> trim(toLowerCase(item.itemType)),
     creators   |-> normalizeCreators(item.creators),
     year       |-> extractYear(item.date)]

(***************************************************************************)
(* Similarity algorithms.                                                  *)
(***************************************************************************)
\* new Set(str.split(/\s+/).filter(s => s.length > 0))
RECURSIVE Tokens(_)
Tokens(str) ==
    IF str = <<>> THEN {}
    ELSE IF IsSpace(Head(str)) THEN Tokens(Tail(str))
    ELSE LET r == NonSpaceRun(str)
         IN  {SubSeq(str, 1, r)} \cup Tokens(SubSeq(str, r + 1, Len(str)))

jaccardSimilarity(str1, str2) ==
    IF str1 = <<>> /\ str2 = <<>> THEN ROne
    ELSE IF str1 = <<>> \/ str2 = <<>> THEN RZero
    ELSE LET set1 == Tokens(str1)
             set2 == Tokens(str2)
         IN  IF set1 = {} /\ set2 = {} THEN ROne
             ELSE IF set1 = {} \/ set2 = {} THEN RZero
             ELSE Rat(Cardinality(set1 \cap set2), Cardinality(set1 \cup set2))

\* Min3 that leaves the substitution out
Min3_NoSubstitution(a, b, c) ==
    IF a <= b THEN a ELSE b

Min3(a, b, c) ==
    IF a <= b /\ a <= c THEN a ELSE IF b <= c THEN b ELSE c

\* The inner loop of levenshteinDistance from column j on: curr after it.
RECURSIVE LevInner(_, _, _, _, _, _)
LevInner(str1, str2, prev, curr, i, j) ==
    IF j > Len(str2) THEN curr
    ELSE LET cost == IF str1[i] = str2[j] THEN 0 ELSE 1
             cell == Min3(prev[j] + 1, curr[j - 1] + 1, prev[j - 1] + cost)
         IN  LevInner(str1, str2, prev, [curr EXCEPT ![j] = cell], i, j + 1)

\* The outer loop from row i on, with the two rows swapped after each row:
\* prev after the loop.
RECURSIVE LevOuter(_, _, _, _, _)
LevOuter(str1, str2, prev, curr, i) ==
    IF i > Len(str1) THEN prev
    ELSE LET filled == LevInner(str1, str2, prev, [curr EXCEPT ![0] = i], i, 1)
         IN  LevOuter(str1, str2, filled, prev, i + 1)

levenshteinDistance(str1, str2) ==
    IF str1 = <<>> THEN Len(str2)
    ELSE IF str2 = <<>> THEN Len(str1)
    ELSE LET n    == Len(str2)
             prev == [k \in 0..n |-> k]
             curr == [k \in 0..n |-> 0]
         IN  LevOuter(str1, str2, prev, curr, 1)[n]

levenshteinSimilarity(str1, str2) ==
    IF str1 = <<>> /\ str2 = <<>> THEN ROne
    ELSE IF str1 = <<>> \/ str2 = <<>> THEN RZero
    ELSE LET maxLen == IF Len(str1) >= Len(str2) THEN Len(str1) ELSE Len(str2)
         IN  RSub(ROne, Rat(levenshteinDistance(str1, str2), maxLen))

combinedTitleSimilarity(title1, title2, useFuzzy) ==
    LET jaccard == jaccardSimilarity(title1, title2)
        levenshtein == levenshteinSimilarity(title1, title2)
        avgLen == Rat(Len(title1) + Len(title2), 2)
        levenshteinWeight == RMax(RZero, RSub(ROne, RDiv(avgLen, <<100, 1>>)))
    IN  IF ~useFuzzy THEN jaccard
        ELSE RAdd(RMul(jaccard, RSub(ROne, levenshteinWeight)),
                  RMul(levenshtein, levenshteinWeight))

(***************************************************************************)
(* Duplicate detection: the pairwise scorer.                               *)
(***************************************************************************)
\* The fields of a weight vector, in the order of the literal in the script
WeightFields ==
    <<"URL", "DOI", "title", "creators", "date", "publisher", "journal",
      "shortTitle", "place", "ISBN", "itemType">>

\* A weights argument that is null or undefined
NullWeights ==
    [null |-> TRUE]

IsNullWeights(weights) ==
    "null" \in DOMAIN weights

\* item1.F && item2.F && item1.F === item2.F
SameNonEmpty(a, b) ==
    a # <<>> /\ b # <<>> /\ a = b

urlSim(item1, item2) ==
    IF SameNonEmpty(item1.URL, item2.URL) THEN ROne
    ELSE jaccardSimilarity(item1.URL, item2.URL)

doiSim(item1, item2) ==
    IF SameNonEmpty(item1.DOI, item2.DOI) THEN ROne ELSE RZero

dateSim(item1, item2) ==
    IF SameNonEmpty(item1.year, item2.year) THEN ROne
    ELSE jaccardSimilarity(item1.date, item2.date)

\* if (w > 0) { combinedSimilarity += sim * w; totalWeight += w; }
Accumulate(acc, w, sim) ==
    IF RLess(RZero, w)
    THEN [combinedSimilarity |-> RAdd(acc.combinedSimilarity, RMul(sim, w)),
          totalWeight        |-> RAdd(acc.totalWeight, w)]
    ELSE acc

\* AccumulateItemType without the test of requireSameType
AccumulateItemType_Always(acc, w, requireSameType) ==
    Accumulate(acc, w, ROne)

\* if (weights.itemType > 0) { if (requireSameType) { ... += 1.0 * w ... } }
AccumulateItemType(acc, w, requireSameType) ==
    IF RLess(RZero, w) /\ requireSameType THEN Accumulate(acc, w, ROne) ELSE acc

SameTypeVeto(item1, item2, requireSameType) ==
    requireSameType /\ item1.itemType # item2.itemType

\* calculateSimilarity reads a property of weights that is null or undefined
calculateSimilarityThrows(item1, item2, weights, requireSameType) ==
    ~SameTypeVeto(item1, item2, requireSameType) /\ IsNullWeights(weights)

calculateSimilarity(item1, item2, weights, useFuzzyTitle, requireSameType) ==
    IF SameTypeVeto(item1, item2, requireSameType) THEN RZero
    ELSE LET a0 == [combinedSimilarity |-> RZero, totalWeight |-> RZero]
             a1 == Accumulate(a0, weights.URL, urlSim(item1, item2))
             a2 == Accumulate(a1, weights.DOI, doiSim(item1, item2))
             a3 == Accumulate(a2, weights.title,
                       combinedTitleSimilarity(item1.title, item2.title, useFuzzyTitle))
             a4 == Accumulate(a3, weights.creators,
                       jaccardSimilarity(item1.creators, item2.creators))
             a5 == Accumulate(a4, weights.date, dateSim(item1, item2))
             a6 == Accumulate(a5, weights.publisher,
                       jaccardSimilarity(item1.publisher, item2.publisher))
             a7 == Accumulate(a6, weights.journal,
                       jaccardSimilarity(item1.journal, item2.journal))
             a8 == Accumulate(a7, weights.shortTitle,
                       jaccardSimilarity(item1.shortTitle, item2.shortTitle))
             a9 == Accumulate(a8, weights.place,
                       jaccardSimilarity(item1.place, item2.place))
             a10 == Accumulate(a9, weights.ISBN,
                       jaccardSimilarity(item1.ISBN, item2.ISBN))
             a11 == AccumulateItemType(a10, weights.itemType, requireSameType)
         IN  IF RLess(RZero, a11.totalWeight)
             THEN RDiv(a11.combinedSimilarity, a11.totalWeight)
             ELSE RZero

\* checkExactIdentifierMatch without its DOI branch
checkExactIdentifierMatch_UrlOnly(item1, item2) ==
    IF SameNonEmpty(item1.URL, item2.URL)
    THEN [match |-> TRUE, type |-> "URL", value |-> item1.URL]
    ELSE [match |-> FALSE]

\* checkExactIdentifierMatch that tests the DOI before the URL
checkExactIdentifierMatch_DoiFirst(item1, item2) ==
    IF SameNonEmpty(item1.DOI, item2.DOI)
    THEN [match |-> TRUE, type |-> "DOI", value |-> item1.DOI]
    ELSE IF SameNonEmpty(item1.URL, item2.URL)
    THEN [match |-> TRUE, type |-> "URL", value |-> item1.URL]
    ELSE [match |-> FALSE]

checkExactIdentifierMatch(item1, item2) ==
    IF SameNonEmpty(item1.URL, item2.URL)
    THEN [match |-> TRUE, type |-> "URL", value |-> item1.URL]
    ELSE IF SameNonEmpty(item1.DOI, item2.DOI)
    THEN [match |-> TRUE, type |-> "DOI", value |-> item1.DOI]
    ELSE [match |-> FALSE]

(***************************************************************************)
(* Inputs of the model.                                                    *)
(***************************************************************************)
\* Largest number of records handed to detectDuplicates
MaxItems ==
    3

BlankItem ==
    [id |-> 0, title |-> <<>>, shortTitle |-> <<>>, date |-> <<>>,
     publisher |-> <<>>, place |-> <<>>, publicationTitle |-> <<>>,
     journalAbbreviation |-> <<>>, DOI |-> <<>>, ISBN |-> <<>>, url |-> <<>>,
     itemType |-> <<>>, creators |-> <<>>, unusable |-> {}]

JournalArticle ==
    <<"j", "o", "u", "r", "n", "a", "l", "A", "r", "t", "i", "c", "l", "e">>

Webpage ==
    <<"w", "e", "b", "p", "a", "g", "e">>

Book ==
    <<"b", "o", "o", "k">>

Creator(first, last, name) ==
    [firstName |-> first, lastName |-> last, name |-> name]

\* An article with a URL and a DOI
ItemA ==
    [BlankItem EXCEPT
        !.id = 1, !.itemType = JournalArticle,
        !.title = <<"A", " ", "b", ".">>,
        !.date = <<"2", "0", "2", "0", "-", "0", "1">>,
        !.url = <<"h", "t", "t", "p", ":", "/", "/", "a", "/">>,
        !.DOI = <<"d", "o", "i", ":", "1", "0", ".", "1", "2", "3", "4", "/", "X">>,
        !.publicationTitle = <<"J">>,
        !.creators = <<Creator(<<"B">>, <<"C">>, <<>>), Creator(<<"A">>, <<"B">>, <<>>)>>]

\* A web page at the URL of ItemA
ItemB ==
    [BlankItem EXCEPT
        !.id = 2, !.itemType = Webpage,
        !.title = <<"a", " ", "b">>,
        !.date = <<"2", "0", "2", "0">>,
        !.url = <<"h", "t", "t", "p", "s", ":", "/", "/", "A">>,
        !.creators = <<Creator(<<"A">>, <<"B">>, <<>>), Creator(<<>>, <<>>, <<"B", " ", "C">>)>>]

\* An article with the DOI of ItemA and no URL
ItemC ==
    [BlankItem EXCEPT
        !.id = 3, !.itemType = JournalArticle,
        !.title = <<"a", " ", "c">>,
        !.date = <<"1", "9", "9", "9">>,
        !.DOI = <<"1", "0", ".", "1", "2", "3", "4", "/", "x">>,
        !.journalAbbreviation = <<"J", ".">>]

\* A book without identifiers
ItemD ==
    [BlankItem EXCEPT
        !.id = 4, !.itemType = Book,
        !.title = <<"b">>,
        !.ISBN = <<"1", "-", "2", "x">>,
        !.publisher = <<"P">>,
        !.place = <<"Q">>]

\* A record whose DOI accessor throws, or gives a value that is not a string
ItemE ==
    [BlankItem EXCEPT
        !.id = 5, !.itemType = Book,
        !.title = <<"b">>,
        !.unusable = {"DOI"}]

\* A book with the URL and the DOI of ItemA
ItemF ==
    [BlankItem EXCEPT
        !.id = 6, !.itemType = Book,
        !.title = <<"c">>,
        !.url = <<"h", "t", "t", "p", "s", ":", "/", "/", "A", "/", "/">>,
        !.DOI = <<" ", "1", "0", ".", "1", "2", "3", "4", "/", "x", " ">>]

RawItems ==
    {ItemA, ItemB, ItemC, ItemD, ItemE, ItemF}

\* The sequences of at most n distinct raw records
RECURSIVE ItemSeqs(_)
ItemSeqs(n) ==
    IF n = 0 THEN {<<>>}
    ELSE LET shorter == ItemSeqs(n - 1)
         IN  shorter \cup
             {Append(q, r) : q \in {x \in shorter : Len(x) = n - 1},
                             r \in RawItems}

DistinctItemSeqs(n) ==
    {q \in ItemSeqs(n) : \A a, b \in DOMAIN q : a # b => q[a].id # q[b].id}

WeightVector(url, doi, title, creators, date, publisher, journal, itemType, den) ==
    [URL |-> Rat(url, den), DOI |-> Rat(doi, den), title |-> Rat(title, den),
     creators |-> Rat(creators, den), date |-> Rat(date, den),
     publisher |-> Rat(publisher, den), journal |-> Rat(journal, den),
     shortTitle |-> RZero, place |-> RZero, ISBN |-> RZero,
     itemType |-> Rat(itemType, den)]

\* const weights = { URL: 0.25, DOI: 0.22, ... } of the main function
DefaultWeights ==
    WeightVector(25, 22, 20, 15, 10, 4, 4, 0, 100)

ZeroWeights ==
    WeightVector(0, 0, 0, 0, 0, 0, 0, 0, 1)

TitleOnlyWeights ==
    WeightVector(0, 0, 1, 0, 0, 0, 0, 0, 1)

ItemTypeOnlyWeights ==
    WeightVector(0, 0, 0, 0, 0, 0, 0, 1, 1)

\* Every field, itemType included, with the same positive weight
UniformWeights ==
    [f \in Range(WeightFields) |-> ROne]

\* The weights arguments of detectDuplicates in the model
DetectWeights ==
    {DefaultWeights, ZeroWeights, TitleOnlyWeights, ItemTypeOnlyWeights,
     UniformWeights, NullWeights}

\* The thresholds of detectDuplicates in the model
DetectThresholds ==
    {RZero, Rat(3, 5), ROne}

(***************************************************************************)
(* State.                                                                  *)
(***************************************************************************)
VARIABLES
    pc,                  \* where the run is
    items,               \* detectDuplicates: the records to compare
    threshold,           \* detectDuplicates: the similarity threshold
    weights,             \* the weight vector
    useExactMatch,
    useFuzzyTitle,
    requireSameType,
    normalizedItems,     \* detectDuplicates: const normalizedItems
    i,                   \* detectDuplicates: outer loop index (from 1)
    j,                   \* detectDuplicates: inner loop index (from 1)
    comparisonsDone,
    lastProgress,
    progressLog,         \* the percentages written by the progress report
    compared,            \* the pairs <<i, j>> the loop body has run for
    potentialDuplicates, \* detectDuplicates: const potentialDuplicates
    result,              \* what detectDuplicates returned to its caller
    handed,              \* what handleDetectedDuplicates was called with
    error,               \* where the error that ended the run was raised
    similarity,          \* detectDuplicates: let similarity, after the loop body
    rawWeights,          \* main: the weights literal as written
    input,               \* getUserPreferences: what prompt() returned
    str1,                \* levenshteinDistance: first argument
    str2,                \* levenshteinDistance: second argument
    distance,            \* levenshteinDistance: what it returned
    running,             \* window._duplicateDetectionRunning
    run,                 \* where each invocation of the script is
    failing,             \* ids of the records whose saveTx and trashTx throw
    timestamp,           \* batchTagDuplicates, reviewDuplicatesIndividually
    taggedItems,         \* batchTagDuplicates: const taggedItems
    position,            \* the pair the for-of loop over duplicates is at
    presented,           \* the pairs shown by the prompt of the review
    answers,             \* what the prompt of the review returned for them
    library,             \* the calls made on the records of the library
    counts               \* reviewDuplicatesIndividually: the four counters

vars ==
    <<pc, items, threshold, weights, useExactMatch, useFuzzyTitle,
      requireSameType, normalizedItems, i, j, comparisonsDone, lastProgress,
      progressLog, compared, potentialDuplicates, result, handed, error,
      similarity, rawWeights, input, str1, str2, distance, running, run,
      failing, timestamp, taggedItems, position, presented, answers, library,
      counts>>

\* What only the runs of the whole script and of levenshteinDistance change
hostVars ==
    <<str1, str2, distance, running, run, failing, timestamp, taggedItems,
      position, presented, answers, library, counts>>

paramVars ==
    <<items, threshold, weights, useExactMatch, useFuzzyTitle, requireSameType,
      rawWeights, input>>

NotReturned ==
    [returned |-> FALSE, value |-> <<>>]

NotHanded ==
    [called |-> FALSE, duplicates |-> <<>>]

\* prompt() returned null
NoInput ==
    [cancelled |-> TRUE, text |-> <<>>]

\* Number of invocations of the script in one window
MaxInvocations ==
    3

Invocations ==
    1..MaxInvocations

\* An invocation that has not started: did holds what it has done so far,
\* exit how it ended and during the invocations under way when it started
NotInvoked ==
    [pc |-> "idle", did |-> {}, exit |-> "", during |-> {}]

\* let processed = 0, tagged = 0, trashed = 0, skipped = 0
NoCounts ==
    [processed |-> 0, tagged |-> 0, trashed |-> 0, skipped |-> 0]

\* No script invocation, no handling of duplicates and no call of
\* levenshteinDistance has started
HostIdle ==
    /\ str1 = <<>>
    /\ str2 = <<>>
    /\ distance = -1
    /\ running = FALSE
    /\ run = [p \in Invocations |-> NotInvoked]
    /\ failing = {}
    /\ timestamp = 0
    /\ taggedItems = {}
    /\ position = 0
    /\ presented = <<>>
    /\ answers = <<>>
    /\ library = <<>>
    /\ counts = NoCounts

(***************************************************************************)
(* detectDuplicates, called with arguments from the sets of the model, and *)
(* the part of the main function that calls it.                            *)
(***************************************************************************)
Init ==
    /\ pc = "normalizing"
    /\ items \in DistinctItemSeqs(MaxItems)
    /\ threshold \in DetectThresholds
    /\ weights \in DetectWeights
    /\ useExactMatch \in BOOLEAN
    /\ useFuzzyTitle \in BOOLEAN
    /\ requireSameType \in BOOLEAN
    /\ normalizedItems = <<>>
    /\ i = 0
    /\ j = 0
    /\ comparisonsDone = 0
    /\ lastProgress = 0
    /\ progressLog = <<>>
    /\ compared = <<>>
    /\ potentialDuplicates = <<>>
    /\ result = NotReturned
    /\ handed = NotHanded
    /\ error = ""
    /\ similarity = RZero
    /\ rawWeights = weights
    /\ input = NoInput
    /\ HostIdle

\* const totalComparisons = (items.length * (items.length - 1)) / 2
totalComparisons ==
    (Len(items) * (Len(items) - 1)) \div 2

\* for (const item of items) normalizedItems.push(normalizeItemFields(item))
Normalize ==
    /\ pc = "normalizing"
    /\ IF \E k \in DOMAIN items : normalizeItemFieldsThrows(items[k])
       THEN /\ pc' = "thrown"
            /\ error' = "normalize"
            /\ normalizedItems' =
                 LET bad == CHOOSE k \in DOMAIN items :
                               /\ normalizeItemFieldsThrows(items[k])
                               /\ \A m \in 1..(k - 1) :
                                     ~normalizeItemFieldsThrows(items[m])
                 IN  [k \in 1..(bad - 1) |-> normalizeItemFields(items[k])]
            /\ UNCHANGED <<i, j>>
       ELSE /\ normalizedItems' =
                 [k \in DOMAIN items |-> normalizeItemFields(items[k])]
            /\ error' = error
            /\ IF Len(items) >= 2
               THEN pc' = "comparing" /\ i' = 1 /\ j' = 2
               ELSE pc' = "sorting" /\ UNCHANGED <<i, j>>
    /\ UNCHANGED <<hostVars, paramVars, comparisonsDone, lastProgress, progressLog,
                   compared, potentialDuplicates, result, handed, similarity>>

\* ProgressOf computed before comparisonsDone++ instead of after it
ProgressOf_BeforeIncrement(done, total) ==
    RFloor(RMul(Rat(done - 1, total), <<10, 1>>))

\* Math.floor((comparisonsDone / totalComparisons) * 10)
ProgressOf(done, total) ==
    RFloor(RMul(Rat(done, total), <<10, 1>>))

TypesNote(item1, item2) ==
    IF item1.itemType # item2.itemType
    THEN <<item1.itemType, item2.itemType>>
    ELSE <<>>

\* (similarity * 100).toFixed(1), in tenths of a percent
PercentTenths(sim) ==
    RFloor(RAdd(RMul(sim, <<1000, 1>>), <<1, 2>>))

\* The candidate of the exact-identifier fast path. item1 and item2 refer to
\* the records normalizedItems[a] and normalizedItems[b].
ExactCandidate(a, b, item1, item2) ==
    LET exactMatch == checkExactIdentifierMatch(item1, item2)
    IN  [item1 |-> a, item2 |-> b, similarity |-> ROne,
         reason |-> [kind |-> "Exact", type |-> exactMatch.type,
                     value |-> exactMatch.value, tenths |-> 0,
                     typesDiffer |-> TypesNote(item1, item2)]]

\* The candidate of the weighted score
ScoredCandidate(a, b, item1, item2, sim) ==
    [item1 |-> a, item2 |-> b, similarity |-> sim,
     reason |-> [kind |-> "Similarity", type |-> "", value |-> <<>>,
                 tenths |-> PercentTenths(sim),
                 typesDiffer |-> TypesNote(item1, item2)]]

\* NextPair with the inner loop starting at j = i
NextPair_SelfPair(a, b, n) ==
    IF b < n THEN <<a, b + 1>>
    ELSE IF a + 1 <= n THEN <<a + 1, a + 1>>
    ELSE <<0, 0>>

\* The pair the loops reach after the pair (a, b), <<0, 0>> when there is none
NextPair(a, b, n) ==
    IF b < n THEN <<a, b + 1>>
    ELSE IF a + 2 <= n THEN <<a + 1, a + 2>>
    ELSE <<0, 0>>

AdvanceLoop ==
    LET next == NextPair(i, j, Len(normalizedItems))
    IN  /\ i' = next[1]
        /\ j' = next[2]
        /\ pc' = IF next = <<0, 0>> THEN "sorting" ELSE "comparing"

\* The exact-identifier fast path decides the pair (a, b)
ExactPath(item1, item2) ==
    useExactMatch /\ checkExactIdentifierMatch(item1, item2).match

\* One run of the body of the inner loop
Compare ==
    /\ pc = "comparing"
    /\ LET item1 == normalizedItems[i]
           item2 == normalizedItems[j]
           progress == ProgressOf(comparisonsDone + 1, totalComparisons)
       IN  /\ comparisonsDone' = comparisonsDone + 1
           /\ IF progress > lastProgress
              THEN /\ progressLog' = Append(progressLog, progress * 10)
                   /\ lastProgress' = progress
              ELSE UNCHANGED <<progressLog, lastProgress>>
           /\ compared' = Append(compared, <<i, j>>)
           /\ \/ /\ ExactPath(item1, item2)
                 /\ similarity' = ROne
                 /\ potentialDuplicates' =
                      Append(potentialDuplicates, ExactCandidate(i, j, item1, item2))
                 /\ AdvanceLoop
                 /\ UNCHANGED error
              \/ /\ ~ExactPath(item1, item2)
                 /\ ~calculateSimilarityThrows(item1, item2, weights, requireSameType)
                 /\ similarity' = calculateSimilarity(item1, item2, weights,
                                       useFuzzyTitle, requireSameType)
                 /\ potentialDuplicates' =
                      IF RGeq(similarity', threshold)
                      THEN Append(potentialDuplicates,
                               ScoredCandidate(i, j, item1, item2, similarity'))
                      ELSE potentialDuplicates
                 /\ AdvanceLoop
                 /\ UNCHANGED error
              \/ /\ ~ExactPath(item1, item2)
                 /\ calculateSimilarityThrows(item1, item2, weights, requireSameType)
                 /\ pc' = "thrown"
                 /\ error' = "compare"
                 /\ similarity' = RZero
                 /\ UNCHANGED <<i, j, potentialDuplicates>>
    /\ UNCHANGED <<hostVars, paramVars, normalizedItems, result, handed>>

\* potentialDuplicates.sort((a, b) => b.similarity - a.similarity) puts x
\* behind every candidate that does not have a smaller similarity
\* InsertCandidate that puts x before the candidates of equal similarity
RECURSIVE InsertCandidate_Unstable(_, _)
InsertCandidate_Unstable(sorted, x) ==
    IF sorted = <<>> THEN <<x>>
    ELSE IF ~RLess(x.similarity, Head(sorted).similarity) THEN <<x>> \o sorted
    ELSE <<Head(sorted)>> \o InsertCandidate_Unstable(Tail(sorted), x)

RECURSIVE InsertCandidate(_, _)
InsertCandidate(sorted, x) ==
    IF sorted = <<>> THEN <<x>>
    ELSE IF RLess(Head(sorted).similarity, x.similarity) THEN <<x>> \o sorted
    ELSE <<Head(sorted)>> \o InsertCandidate(Tail(sorted), x)

RECURSIVE SortBySimilarity(_)
SortBySimilarity(duplicates) ==
    IF duplicates = <<>> THEN <<>>
    ELSE InsertCandidate(
             SortBySimilarity(SubSeq(duplicates, 1, Len(duplicates) - 1)),
             duplicates[Len(duplicates)])

\* The sort and the return of detectDuplicates
SortAndReturn ==
    /\ pc = "sorting"
    /\ potentialDuplicates' = SortBySimilarity(potentialDuplicates)
    /\ result' = [returned |-> TRUE, value |-> potentialDuplicates']
    /\ pc' = "returned"
    /\ UNCHANGED <<hostVars, paramVars, normalizedItems, i, j, comparisonsDone,
                   lastProgress, progressLog, compared, handed, error,
                   similarity>>

\* main: await handleDetectedDuplicates(potentialDuplicates)
HandleDetected ==
    /\ pc = "returned"
    /\ handed' = [called |-> TRUE, duplicates |-> result.value]
    /\ pc' = "handled"
    /\ UNCHANGED <<hostVars, paramVars, normalizedItems, i, j, comparisonsDone,
                   lastProgress, progressLog, compared, potentialDuplicates,
                   result, error, similarity>>

\* main: the catch block, reached by an error that left detectDuplicates
CatchError ==
    /\ pc = "thrown"
    /\ pc' = "caught"
    /\ UNCHANGED <<hostVars, paramVars, normalizedItems, i, j, comparisonsDone,
                   lastProgress, progressLog, compared, potentialDuplicates,
                   result, handed, error, similarity>>

Next ==
    \/ Normalize
    \/ Compare
    \/ SortAndReturn
    \/ HandleDetected
    \/ CatchError

Spec ==
    Init /\ [][Next]_vars

(***************************************************************************)
(* Properties of detectDuplicates.                                         *)
(***************************************************************************)
\* The positions of the input records that were normalized
Records ==
    DOMAIN normalizedItems

\* The two records have the same non-empty normalized URL
SameURL(a, b) ==
    /\ normalizedItems[a].URL # <<>>
    /\ normalizedItems[a].URL = normalizedItems[b].URL

\* The two records have the same non-empty normalized DOI
SameDOI(a, b) ==
    /\ normalizedItems[a].DOI # <<>>
    /\ normalizedItems[a].DOI = normalizedItems[b].DOI

TypesDiffer(a, b) ==
    normalizedItems[a].itemType # normalizedItems[b].itemType

\* The positions in duplicates of the candidates for the pair (a, b)
CandidatesFor(duplicates, a, b) ==
    {k \in DOMAIN duplicates :
        duplicates[k].item1 = a /\ duplicates[k].item2 = b}

\* C1: in exact-match mode, every pair of records with the same non-empty
\* normalized URL, or the same non-empty normalized DOI, has a candidate of
\* similarity 1 in the returned list, whatever the threshold, the weights and
\* requireSameType are.
C1_ExactMatchEmitted ==
    (result.returned /\ useExactMatch) =>
        \A a, b \in Records :
            (a < b /\ (SameURL(a, b) \/ SameDOI(a, b))) =>
                \E k \in CandidatesFor(result.value, a, b) :
                    result.value[k].similarity = ROne

\* C1 witness: a cross-type pair with the same URL is returned with
\* similarity 1 although the threshold is 1, no field has weight and
\* requireSameType is set.
C1_Witness ==
    /\ result.returned
    /\ useExactMatch
    /\ requireSameType
    /\ threshold = ROne
    /\ weights = ZeroWeights
    /\ \E a, b \in Records :
          /\ a < b
          /\ SameURL(a, b)
          /\ TypesDiffer(a, b)
          /\ \E k \in CandidatesFor(result.value, a, b) :
                result.value[k].similarity = ROne

\* C2: with requireSameType set, and for every threshold and weight vector,
\* a returned candidate whose records differ in item type comes from the
\* exact-match fast path: exact-match mode is on and the pair has the same
\* non-empty URL or DOI.
C2_SameTypeVeto ==
    (result.returned /\ requireSameType /\ ~IsNullWeights(weights)) =>
        \A k \in DOMAIN result.value :
            LET a == result.value[k].item1
                b == result.value[k].item2
            IN  TypesDiffer(a, b) =>
                    (useExactMatch /\ (SameURL(a, b) \/ SameDOI(a, b)))

\* The weighted score of the pair (a, b) under the arguments of the call
Score(a, b) ==
    calculateSimilarity(normalizedItems[a], normalizedItems[b], weights,
                        useFuzzyTitle, requireSameType)

\* The pair (a, b) is to be reported
Qualifies(a, b) ==
    \/ useExactMatch /\ (SameURL(a, b) \/ SameDOI(a, b))
    \/ RGeq(Score(a, b), threshold)

\* The pairs (a, b) with first <= a < b <= n, row by row
RECURSIVE PairsFrom(_, _)
PairsFrom(first, n) ==
    IF first >= n THEN <<>>
    ELSE [b \in 1..(n - first) |-> <<first, first + b>>] \o PairsFrom(first + 1, n)

\* C3: when detectDuplicates returns, the loop body has run once for every
\* pair (a, b) with a < b, in input order; the result has one candidate for a
\* pair that has an exact identifier match in exact-match mode or a weighted
\* score of at least the threshold, and none for any other pair; every
\* candidate has item1 before item2 in the input.
C3_PairsAndCandidates ==
    result.returned =>
        /\ Len(normalizedItems) = Len(items)
        /\ compared = PairsFrom(1, Len(items))
        /\ \A a, b \in Records :
              a < b =>
                 Cardinality(CandidatesFor(result.value, a, b)) =
                     IF Qualifies(a, b) THEN 1 ELSE 0
        /\ \A k \in DOMAIN result.value :
              /\ result.value[k].item1 \in Records
              /\ result.value[k].item2 \in Records
              /\ result.value[k].item1 < result.value[k].item2

\* C3 witness: three records were compared without the fast path; one pair
\* reached the threshold and is in the result, another did not and is not.
C3_Witness ==
    /\ result.returned
    /\ Len(items) = 3
    /\ ~useExactMatch
    /\ threshold = Rat(3, 5)
    /\ \E a, b \in Records :
          /\ a < b
          /\ RGeq(Score(a, b), threshold)
          /\ Cardinality(CandidatesFor(result.value, a, b)) = 1
    /\ \E a, b \in Records :
          /\ a < b
          /\ RLess(Score(a, b), threshold)
          /\ CandidatesFor(result.value, a, b) = {}

\* The pair of candidate c is met by the loops before the pair of candidate d
PairBefore(c, d) ==
    \/ c.item1 < d.item1
    \/ c.item1 = d.item1 /\ c.item2 < d.item2

\* C4: the returned list is ordered by similarity, highest first, and
\* candidates of equal similarity are in the order in which the loops met
\* their pairs.
C4_SortedStable ==
    result.returned =>
        \A k, m \in DOMAIN result.value :
            k < m =>
                /\ ~RLess(result.value[k].similarity, result.value[m].similarity)
                /\ (result.value[k].similarity = result.value[m].similarity
                        => PairBefore(result.value[k], result.value[m]))

\* C4 witness: the result has two candidates of equal similarity, and the
\* sort has moved a candidate in front of one that was met earlier.
C4_Witness ==
    /\ result.returned
    /\ \E k, m \in DOMAIN result.value :
          /\ k < m
          /\ result.value[k].similarity = result.value[m].similarity
    /\ \E k, m \in DOMAIN result.value :
          /\ k < m
          /\ PairBefore(result.value[m], result.value[k])
          /\ RLess(result.value[m].similarity, result.value[k].similarity)

\* C5: a record whose normalization raises an error does not abort
\* detectDuplicates: the run goes on without that record, and the pairs of
\* the remaining records are reported by the usual rules.
C5_MalformedRecordSkipped ==
    (\E k \in DOMAIN items : normalizeItemFieldsThrows(items[k])) =>
        /\ pc \notin {"thrown", "caught"}
        /\ result.returned =>
              /\ Len(normalizedItems) =
                    Cardinality({k \in DOMAIN items :
                                    ~normalizeItemFieldsThrows(items[k])})
              /\ \A a, b \in Records :
                    a < b =>
                       Cardinality(CandidatesFor(result.value, a, b)) =
                           IF Qualifies(a, b) THEN 1 ELSE 0

FieldSimilarity(f, item1, item2) ==
    CASE f = "URL" -> urlSim(item1, item2)
      [] f = "DOI" -> doiSim(item1, item2)
      [] f = "title" ->
            combinedTitleSimilarity(item1.title, item2.title, useFuzzyTitle)
      [] f = "date" -> dateSim(item1, item2)
      [] f = "itemType" -> ROne
      [] OTHER -> jaccardSimilarity(item1[f], item2[f])

\* The field takes part in the score
Contributes(f) ==
    /\ RLess(RZero, weights[f])
    /\ f = "itemType" => requireSameType

\* The last pair the loop body has run for went through the scorer and was
\* not vetoed
LastPairScored ==
    /\ compared # <<>>
    /\ pc \notin {"thrown", "caught"}
    /\ ~IsNullWeights(weights)
    /\ LET a == compared[Len(compared)][1]
           b == compared[Len(compared)][2]
       IN  /\ ~(useExactMatch /\ (SameURL(a, b) \/ SameDOI(a, b)))
           /\ ~(requireSameType /\ TypesDiffer(a, b))

\* C10: for a pair that is not vetoed, the score is the sum of
\* similarity * weight over the contributing fields divided by the sum of
\* their weights, where a field contributes if its weight is positive and
\* itemType (with similarity 1) only if requireSameType is set as well; it is
\* 0 when no field contributes.
C10_WeightedAverage ==
    LastPairScored =>
        LET item1 == normalizedItems[compared[Len(compared)][1]]
            item2 == normalizedItems[compared[Len(compared)][2]]
            contributing == SelectSeq(WeightFields, Contributes)
            weightSum == RSum([k \in DOMAIN contributing |-> weights[contributing[k]]])
            weighted == RSum([k \in DOMAIN contributing |->
                               RMul(FieldSimilarity(contributing[k], item1, item2),
                                    weights[contributing[k]])])
        IN  similarity =
                IF contributing = <<>> THEN RZero ELSE RDiv(weighted, weightSum)

\* C10 witness: a pair of two articles was scored with every field weighted
\* and requireSameType set, and the score is neither 0 nor 1.
C10_Witness ==
    /\ LastPairScored
    /\ weights = UniformWeights
    /\ requireSameType
    /\ similarity \notin {RZero, ROne}
    /\ similarity = Score(compared[Len(compared)][1], compared[Len(compared)][2])

\* C11: in exact-match mode, the candidate of a pair with the same non-empty
\* URL is tagged URL with that URL as value, also when the DOIs match too; the
\* candidate of a pair with the same non-empty DOI and no such URL is tagged
\* DOI with that DOI as value; and either candidate carries the types-differ
\* note, naming the two item types, exactly when the item types differ.
C11_ExactReasonTagged ==
    (result.returned /\ useExactMatch) =>
        \A a, b \in Records :
            (a < b /\ (SameURL(a, b) \/ SameDOI(a, b))) =>
                \A k \in CandidatesFor(result.value, a, b) :
                    LET reason == result.value[k].reason
                    IN  /\ reason.kind = "Exact"
                        /\ SameURL(a, b) =>
                              /\ reason.type = "URL"
                              /\ reason.value = normalizedItems[a].URL
                        /\ ~SameURL(a, b) =>
                              /\ reason.type = "DOI"
                              /\ reason.value = normalizedItems[a].DOI
                        /\ (reason.typesDiffer # <<>>) <=> TypesDiffer(a, b)
                        /\ TypesDiffer(a, b) =>
                              reason.typesDiffer =
                                  <<normalizedItems[a].itemType,
                                    normalizedItems[b].itemType>>

\* A returned list with a URL-tagged candidate whose DOIs match too, a
\* DOI-tagged candidate, a candidate with the note and one without it
C11_Witness ==
    /\ result.returned
    /\ useExactMatch
    /\ \E k \in DOMAIN result.value :
          LET c == result.value[k]
          IN  /\ SameURL(c.item1, c.item2)
              /\ SameDOI(c.item1, c.item2)
              /\ c.reason.type = "URL"
              /\ c.reason.typesDiffer # <<>>
    /\ \E k \in DOMAIN result.value :
          LET c == result.value[k]
          IN  /\ ~SameURL(c.item1, c.item2)
              /\ SameDOI(c.item1, c.item2)
              /\ c.reason.type = "DOI"
              /\ c.reason.typesDiffer = <<>>

(***************************************************************************)
(* detectDuplicates on longer inputs: records 1, 3, 5, ... are copies of   *)
(* ItemA and records 2, 4, 6, ... copies of ItemD, each with its own id.   *)
(***************************************************************************)
\* Largest number of records in the runs that follow the progress report
MaxProgressItems ==
    6

ProgressItems(n) ==
    [k \in 1..n |-> [(IF k % 2 = 1 THEN ItemA ELSE ItemD) EXCEPT !.id = k]]

InitProgress ==
    /\ pc = "normalizing"
    /\ \E n \in 0..MaxProgressItems : items = ProgressItems(n)
    /\ threshold \in DetectThresholds
    /\ weights \in {DefaultWeights, NullWeights}
    /\ useExactMatch \in BOOLEAN
    /\ useFuzzyTitle \in BOOLEAN
    /\ requireSameType \in BOOLEAN
    /\ normalizedItems = <<>>
    /\ i = 0
    /\ j = 0
    /\ comparisonsDone = 0
    /\ lastProgress = 0
    /\ progressLog = <<>>
    /\ compared = <<>>
    /\ potentialDuplicates = <<>>
    /\ result = NotReturned
    /\ handed = NotHanded
    /\ error = ""
    /\ similarity = RZero
    /\ rawWeights = weights
    /\ input = NoInput
    /\ HostIdle

SpecProgress ==
    InitProgress /\ [][Next]_vars

\* The pairs of the candidates of duplicates, in their order
PairsOf(duplicates) ==
    [k \in DOMAIN duplicates |-> <<duplicates[k].item1, duplicates[k].item2>>]

QualifyingPair(p) ==
    Qualifies(p[1], p[2])

\* C7: the percentages reported are multiples of 10 between 0 and 100, in
\* strictly increasing order; after c comparisons they are the non-zero
\* values of 10 * floor(10 * k / total) for k = 1..c, so one is reported
\* exactly when the completed fraction reaches a multiple of 10% not yet
\* reported; 100 is reported when and only when the last comparison is done;
\* and whatever has been reported, the candidates collected are those of the
\* qualifying pairs compared so far, in the order of the comparisons.
C7_ProgressReport ==
    /\ \A k \in DOMAIN progressLog : progressLog[k] \in {10 * m : m \in 0..10}
    /\ \A k, m \in DOMAIN progressLog : k < m => progressLog[k] < progressLog[m]
    /\ Len(items) >= 2 =>
          /\ Range(progressLog) =
                {10 * ((10 * c) \div totalComparisons) : c \in 1..comparisonsDone}
                    \ {0}
          /\ comparisonsDone = totalComparisons =>
                (progressLog # <<>> /\ progressLog[Len(progressLog)] = 100)
          /\ 100 \in Range(progressLog) => comparisonsDone = totalComparisons
    /\ pc \in {"comparing", "sorting"} =>
          PairsOf(potentialDuplicates) = SelectSeq(compared, QualifyingPair)

\* C7 witness: a run over six records has returned candidates; its fifteen
\* comparisons reported each of 10, 20, ..., 100 once, so five comparisons
\* reported nothing.
C7_Witness ==
    /\ result.returned
    /\ Len(items) = 6
    /\ comparisonsDone = 15
    /\ progressLog = [k \in 1..10 |-> 10 * k]
    /\ result.value # <<>>

(***************************************************************************)
(* The configuration steps of the main function: normalizeWeights and      *)
(* getUserPreferences.                                                     *)
(***************************************************************************)
\* Largest weight, as a whole number, in the weight vectors given to
\* normalizeWeights
MaxWeight ==
    2

\* The weight vectors given to normalizeWeights: the literal of the main
\* function, and vectors of whole numbers
ConfigWeights ==
    {DefaultWeights} \cup
    {WeightVector(u, d, t, 0, 0, 0, 0, it, 1) :
        u \in 0..MaxWeight, d \in 0..MaxWeight, t \in 0..MaxWeight,
        it \in 0..MaxWeight}

\* Object.values(weights).reduce((a, b) => a + b, 0)
SumWeights(w) ==
    RSum([k \in DOMAIN WeightFields |-> w[WeightFields[k]]])

\* The loop of a normalizeWeights that divides by the sum of the weights as
\* they are when the key is reached
RECURSIVE DivideKeys_RunningTotal(_, _)
DivideKeys_RunningTotal(w, k) ==
    IF k > Len(WeightFields) THEN w
    ELSE DivideKeys_RunningTotal(
             [w EXCEPT ![WeightFields[k]] = RDiv(@, SumWeights(w))], k + 1)

normalizeWeights_RunningTotal(w) ==
    IF SumWeights(w) = RZero THEN w ELSE DivideKeys_RunningTotal(w, 1)

\* for (let key in weights) weights[key] /= totalWeight, from the k-th key on
RECURSIVE DivideKeys(_, _, _)
DivideKeys(w, k, totalWeight) ==
    IF k > Len(WeightFields) THEN w
    ELSE DivideKeys([w EXCEPT ![WeightFields[k]] = RDiv(@, totalWeight)],
                    k + 1, totalWeight)

normalizeWeights(w) ==
    LET totalWeight == SumWeights(w)
    IN  IF totalWeight = RZero THEN w ELSE DivideKeys(w, 1, totalWeight)

\* s.split(',')
RECURSIVE SplitAtCommas(_)
SplitAtCommas(str) ==
    LET commas == {k \in DOMAIN str : str[k] = ","}
    IN  IF commas = {} THEN <<str>>
        ELSE LET k == CHOOSE m \in commas : \A o \in commas : m <= o
             IN  <<SubSeq(str, 1, k - 1)>>
                     \o SplitAtCommas(SubSeq(str, k + 1, Len(str)))

\* The whole number written by a sequence of digits
RECURSIVE DigitsValue(_)
DigitsValue(digits) ==
    IF digits = <<>> THEN 0
    ELSE 10 * DigitsValue(SubSeq(digits, 1, Len(digits) - 1))
             + (IndexOf(DigitChars, digits[Len(digits)]) - 1)

RECURSIVE Pow10(_)
Pow10(n) ==
    IF n = 0 THEN 1 ELSE 10 * Pow10(n - 1)

NaN ==
    [nan |-> TRUE, value |-> RZero]

\* parseFloat(str) for texts without an exponent and without "Infinity":
\* white space, a sign, digits, a point and digits; what follows is ignored.
parseFloat(str) ==
    LET s1       == trimStart(str)
        signed   == s1 # <<>> /\ Head(s1) \in {"+", "-"}
        negative == signed /\ Head(s1) = "-"
        s2       == IF signed THEN Tail(s1) ELSE s1
        intLen   == DigitRun(s2)
        s3       == SubSeq(s2, intLen + 1, Len(s2))
        hasPoint == s3 # <<>> /\ Head(s3) = "."
        fracLen  == IF hasPoint THEN DigitRun(Tail(s3)) ELSE 0
        whole    == DigitsValue(SubSeq(s2, 1, intLen))
        frac     == DigitsValue(SubSeq(s3, 2, fracLen + 1))
        absolute == RAdd(<<whole, 1>>, Rat(frac, Pow10(fracLen)))
    IN  IF intLen = 0 /\ fracLen = 0 THEN NaN
        ELSE [nan |-> FALSE,
              value |-> IF negative THEN RSub(RZero, absolute) ELSE absolute]

\* input.trim().split(',').map(s => s.trim().toLowerCase())
InputParts(text) ==
    LET raw == SplitAtCommas(trim(text))
    IN  [k \in DOMAIN raw |-> toLowerCase(trim(raw[k]))]

\* parts[k], <<"undefined">> when the array has no such element
Part(parts, k) ==
    IF k \in DOMAIN parts THEN parts[k] ELSE <<"undefined">>

\* The object getUserPreferences returns for a text that was entered
getUserPreferences(text) ==
    LET parts  == InputParts(text)
        parsed == parseFloat(parts[1])
        thresh == IF parsed.nan \/ parsed.value = RZero THEN Rat(3, 5)
                  ELSE parsed.value
    IN  [threshold       |-> RMax(RZero, RMin(ROne, thresh)),
         useExactMatch   |-> Part(parts, 2) # <<"n", "o">>,
         useFuzzyTitle   |-> Part(parts, 3) # <<"n", "o">>,
         requireSameType |-> Part(parts, 4) = <<"y", "e", "s">>]

\* What is typed for the threshold in the model
ThresholdTexts ==
    {<<"0", ".", "6">>,
     <<"0">>,
     <<"-", "1">>,
     <<"1">>,
     <<"2">>,
     <<"0", ".", "3">>,
     <<"a", "b", "c">>,
     <<>>,
     <<"1", ".", "5">>,
     <<".", "5">>,
     <<" ", "0", ".", "2", "5", " ">>,
     <<"-", "0", ".", "0">>,
     <<"0", ".", "6", "0", "x">>,
     <<"+", "1">>}

\* What is typed after the threshold in the model
OptionTexts ==
    {<<>>,
     <<",", "y", "e", "s", ",", "y", "e", "s", ",", "n", "o">>,
     <<",", "n", "o", ",", "n", "o", ",", "y", "e", "s">>,
     <<",", " ", "N", "O", " ", ",", "Y", "e", "s">>,
     <<",", ",", ",", "Y", "E", "S">>,
     <<",", "m", "a", "y", "b", "e", ",", "n", "o">>}

PromptInputs ==
    {[cancelled |-> FALSE, text |-> t \o o] : t \in ThresholdTexts, o \in OptionTexts}
        \cup {NoInput}

InitConfig ==
    /\ pc = "weights"
    /\ rawWeights \in ConfigWeights
    /\ weights = rawWeights
    /\ input = NoInput
    /\ items = <<>>
    /\ threshold = RZero
    /\ useExactMatch = FALSE
    /\ useFuzzyTitle = FALSE
    /\ requireSameType = FALSE
    /\ normalizedItems = <<>>
    /\ i = 0
    /\ j = 0
    /\ comparisonsDone = 0
    /\ lastProgress = 0
    /\ progressLog = <<>>
    /\ compared = <<>>
    /\ potentialDuplicates = <<>>
    /\ result = NotReturned
    /\ handed = NotHanded
    /\ error = ""
    /\ similarity = RZero
    /\ HostIdle

detectVars ==
    <<items, normalizedItems, i, j, comparisonsDone, lastProgress, progressLog,
      compared, potentialDuplicates, result, handed, error, similarity>>

\* main: normalizeWeights(weights)
NormalizeWeights ==
    /\ pc = "weights"
    /\ weights' = normalizeWeights(weights)
    /\ pc' = "prefs"
    /\ UNCHANGED <<hostVars, rawWeights, input, threshold, useExactMatch, useFuzzyTitle,
                   requireSameType, detectVars>>

\* main: const userPrefs = getUserPreferences(weights), with a text entered
GetUserPreferences ==
    /\ pc = "prefs"
    /\ \E in \in PromptInputs \ {NoInput} :
          /\ input' = in
          /\ LET userPrefs == getUserPreferences(in.text)
             IN  /\ threshold' = userPrefs.threshold
                 /\ useExactMatch' = userPrefs.useExactMatch
                 /\ useFuzzyTitle' = userPrefs.useFuzzyTitle
                 /\ requireSameType' = userPrefs.requireSameType
    /\ pc' = "configured"
    /\ UNCHANGED <<hostVars, rawWeights, weights, detectVars>>

\* main: getUserPreferences returns null and the main function returns
CancelPreferences ==
    /\ pc = "prefs"
    /\ input' = NoInput
    /\ pc' = "cancelled"
    /\ UNCHANGED <<hostVars, rawWeights, weights, threshold, useExactMatch, useFuzzyTitle,
                   requireSameType, detectVars>>

NextConfig ==
    \/ NormalizeWeights
    \/ GetUserPreferences
    \/ CancelPreferences

SpecConfig ==
    InitConfig /\ [][NextConfig]_vars

\* The number that was entered for the threshold
Entered ==
    parseFloat(InputParts(input.text)[1])

\* C8: the threshold handed to the detection is in [0, 1], and when a number
\* was entered it is that number if it is in [0, 1] (0 and 1 included), 0 if
\* it is below 0 and 1 if it is above 1.
C8_ThresholdCoerced ==
    pc = "configured" =>
        /\ RGeq(threshold, RZero)
        /\ RGeq(ROne, threshold)
        /\ ~Entered.nan =>
              threshold =
                 IF RLess(Entered.value, RZero) THEN RZero
                 ELSE IF RLess(ROne, Entered.value) THEN ROne
                 ELSE Entered.value

\* C9: for weights of sum S > 0, every weight after normalizeWeights is the
\* weight before divided by S, the weights sum to 1 and a weight of 0 is
\* still 0; when every weight is 0 the vector is as before.
C9_WeightsNormalized ==
    pc # "weights" =>
        LET S == SumWeights(rawWeights)
        IN  IF RLess(RZero, S)
            THEN /\ \A f \in Range(WeightFields) :
                       /\ RMul(weights[f], S) = rawWeights[f]
                       /\ rawWeights[f] = RZero => weights[f] = RZero
                 /\ SumWeights(weights) = ROne
            ELSE weights = rawWeights

\* C9 witness: weights of sum 3, one of them 0, have been normalized.
C9_Witness ==
    /\ pc = "prefs"
    /\ SumWeights(rawWeights) = <<3, 1>>
    /\ rawWeights.URL = <<2, 1>>
    /\ weights.URL = <<2, 3>>
    /\ rawWeights.DOI = RZero
    /\ weights.DOI = RZero
    /\ weights.itemType = <<1, 3>>

(***************************************************************************)
(* levenshteinDistance on its own, called with two strings of at most      *)
(* MaxLength characters of Alphabet.                                       *)
(***************************************************************************)
\* Largest length of an argument of levenshteinDistance
MaxLength ==
    3

Alphabet ==
    {"a", "b"}

\* The strings over Alphabet of at most n characters
RECURSIVE Strings(_)
Strings(n) ==
    IF n = 0 THEN {<<>>}
    ELSE LET shorter == Strings(n - 1)
         IN  shorter \cup
             {Append(t, c) : t \in {x \in shorter : Len(x) = n - 1},
                             c \in Alphabet}

InitLevenshtein ==
    /\ pc = "measuring"
    /\ str1 \in Strings(MaxLength)
    /\ str2 \in Strings(MaxLength)
    /\ distance = -1
    /\ running = FALSE
    /\ run = [p \in Invocations |-> NotInvoked]
    /\ failing = {}
    /\ timestamp = 0
    /\ taggedItems = {}
    /\ position = 0
    /\ presented = <<>>
    /\ answers = <<>>
    /\ library = <<>>
    /\ counts = NoCounts
    /\ items = <<>>
    /\ threshold = RZero
    /\ weights = DefaultWeights
    /\ rawWeights = DefaultWeights
    /\ input = NoInput
    /\ useExactMatch = FALSE
    /\ useFuzzyTitle = FALSE
    /\ requireSameType = FALSE
    /\ normalizedItems = <<>>
    /\ i = 0
    /\ j = 0
    /\ comparisonsDone = 0
    /\ lastProgress = 0
    /\ progressLog = <<>>
    /\ compared = <<>>
    /\ potentialDuplicates = <<>>
    /\ result = NotReturned
    /\ handed = NotHanded
    /\ error = ""
    /\ similarity = RZero

\* const distance = levenshteinDistance(str1, str2)
LevenshteinDistance ==
    /\ pc = "measuring"
    /\ distance' = levenshteinDistance(str1, str2)
    /\ pc' = "measured"
    /\ UNCHANGED <<str1, str2, running, run, failing, timestamp, taggedItems,
                   position, presented, answers, library, counts, paramVars,
                   detectVars>>

NextLevenshtein ==
    LevenshteinDistance

SpecLevenshtein ==
    InitLevenshtein /\ [][NextLevenshtein]_vars

\* The strings one insertion, one deletion or one substitution away from s
\* (an edit script of least length never passes a string longer than the
\* longer of its two ends, so insertions stop at MaxLength)
OneEditFrom(s) ==
    {SubSeq(s, 1, k - 1) \o SubSeq(s, k + 1, Len(s)) : k \in DOMAIN s}
    \cup {[s EXCEPT ![k] = c] : k \in DOMAIN s, c \in Alphabet}
    \cup IF Len(s) < MaxLength
         THEN {SubSeq(s, 1, k) \o <<c>> \o SubSeq(s, k + 1, Len(s)) :
                   k \in 0..Len(s), c \in Alphabet}
         ELSE {}

\* The strings at most k edits away from s
RECURSIVE WithinEdits(_, _)
WithinEdits(s, k) ==
    IF k = 0 THEN {s}
    ELSE LET nearer == WithinEdits(s, k - 1)
         IN  nearer \cup UNION {OneEditFrom(t) : t \in nearer}

\* The least number of edits that turn a into b
MinimumEdits(a, b) ==
    CHOOSE k \in 0..(2 * MaxLength) :
        /\ b \in WithinEdits(a, k)
        /\ \A m \in 0..(k - 1) : b \notin WithinEdits(a, m)

\* C12: the distance levenshteinDistance returned for str1 and str2 is the
\* least number of insertions, deletions and substitutions of one character
\* that turn str1 into str2; the call with the arguments exchanged gives the
\* same number, and so does levenshteinSimilarity; and when one of the two
\* strings is empty the distance is the length of the other.
C12_MinimumEditDistance ==
    (pc = "measured") =>
        /\ distance = MinimumEdits(str1, str2)
        /\ distance = levenshteinDistance(str2, str1)
        /\ levenshteinSimilarity(str1, str2) = levenshteinSimilarity(str2, str1)
        /\ (str1 = <<>>) => (distance = Len(str2))
        /\ (str2 = <<>>) => (distance = Len(str1))

\* A distance that needs a deletion and a substitution: both rows of the
\* dynamic program were used more than once
C12_Witness ==
    /\ pc = "measured"
    /\ str1 = <<"a", "b", "a">>
    /\ str2 = <<"b", "b">>
    /\ distance = 2

(***************************************************************************)
(* The main function invoked several times in one window.  An invocation   *)
(* runs up to its next await or prompt in one step, so that other          *)
(* invocations start and proceed in between.                               *)
(***************************************************************************)
\* detectDuplicates and the configuration have not started
NoDetection ==
    /\ items = <<>>
    /\ threshold = RZero
    /\ weights = DefaultWeights
    /\ rawWeights = DefaultWeights
    /\ input = NoInput
    /\ useExactMatch = FALSE
    /\ useFuzzyTitle = FALSE
    /\ requireSameType = FALSE
    /\ normalizedItems = <<>>
    /\ i = 0
    /\ j = 0
    /\ comparisonsDone = 0
    /\ lastProgress = 0
    /\ progressLog = <<>>
    /\ compared = <<>>
    /\ potentialDuplicates = <<>>
    /\ result = NotReturned
    /\ handed = NotHanded
    /\ error = ""
    /\ similarity = RZero

InitGuard ==
    /\ pc = "window"
    /\ HostIdle
    /\ NoDetection

\* What the invocations of the main function leave alone in this part
guardRest ==
    <<pc, str1, str2, distance, failing, timestamp, taggedItems, position,
      presented, answers, library, counts, paramVars, detectVars>>

\* The positions between the guard and the end of the finally block
InsideGuard ==
    {"retrieving", "configuring", "detecting", "handling"}

Inside(p) ==
    run[p].pc \in InsideGuard

\* The guard that lets every invocation pass
GuardRejects_Never(flag) ==
    FALSE

\* if (typeof window !== 'undefined' && window._duplicateDetectionRunning),
\* in a window
GuardRejects(flag) ==
    flag

\* A finally block that the early returns do not pass through
FlagAfterFinally_NotOnReturn(exit) ==
    exit \in {"noItems", "noRegularItems", "cancelled"}

\* finally { window._duplicateDetectionRunning = false; ... }
FlagAfterFinally(exit) ==
    FALSE

\* The body of the try block is left, by return, by the catch block or at
\* its end, and the finally block has run
Leave(p, exit) ==
    /\ run' = [run EXCEPT ![p].pc = "done", ![p].exit = exit]
    /\ running' = FlagAfterFinally(exit)

\* The script is run: the guard, and the flag set when it lets the run pass.
\* during holds the invocations that were inside when this one started.
Enter(p) ==
    /\ run[p].pc = "idle"
    /\ LET during == {q \in Invocations : Inside(q)}
       IN  IF GuardRejects(running)
           THEN /\ run' = [run EXCEPT ![p].pc = "rejected",
                                      ![p].exit = "rejected",
                                      ![p].during = during]
                /\ UNCHANGED running
           ELSE /\ run' = [run EXCEPT ![p].pc = "retrieving",
                                      ![p].during = during]
                /\ running' = TRUE
    /\ UNCHANGED guardRest

\* const items = await getItemsToEdit(), and the filter for regular items
GetItems(p) ==
    /\ run[p].pc = "retrieving"
    /\ \/ \E exit \in {"noItems", "noRegularItems"} :
             /\ run' = [run EXCEPT ![p].pc = "done", ![p].exit = exit,
                                   ![p].did = @ \cup {"retrieve"}]
             /\ running' = FlagAfterFinally(exit)
       \/ /\ run' = [run EXCEPT ![p].pc = "configuring",
                                 ![p].did = @ \cup {"retrieve"}]
          /\ UNCHANGED running
    /\ UNCHANGED guardRest

\* normalizeWeights(weights) and getUserPreferences(weights)
Configure(p) ==
    /\ run[p].pc = "configuring"
    /\ \/ Leave(p, "cancelled")
       \/ /\ run' = [run EXCEPT ![p].pc = "detecting"]
          /\ UNCHANGED running
    /\ UNCHANGED guardRest

\* await detectDuplicates(...): it returns, or throws into the catch block
Detect(p) ==
    /\ run[p].pc = "detecting"
    /\ \/ /\ run' = [run EXCEPT ![p].pc = "handling",
                                 ![p].did = @ \cup {"detect"}]
          /\ UNCHANGED running
       \/ /\ run' = [run EXCEPT ![p].pc = "done", ![p].exit = "error",
                                 ![p].did = @ \cup {"detect"}]
          /\ running' = FlagAfterFinally("error")
    /\ UNCHANGED guardRest

\* handleDetectedDuplicates up to an await after it tagged or trashed a record
Mutate(p) ==
    /\ run[p].pc = "handling"
    /\ "mutate" \notin run[p].did
    /\ run' = [run EXCEPT ![p].did = @ \cup {"mutate"}]
    /\ UNCHANGED running
    /\ UNCHANGED guardRest

\* handleDetectedDuplicates returns and the run ends, or it throws
FinishHandling(p) ==
    /\ run[p].pc = "handling"
    /\ \/ Leave(p, "normal")
       \/ Leave(p, "error")
    /\ UNCHANGED guardRest

NextGuard ==
    \E p \in Invocations :
        \/ Enter(p)
        \/ GetItems(p)
        \/ Configure(p)
        \/ Detect(p)
        \/ Mutate(p)
        \/ FinishHandling(p)

SpecGuard ==
    InitGuard /\ [][NextGuard]_vars

\* C13: at most one invocation is between the guard and the end of its
\* finally block, and an invocation that started while another one was there
\* was rejected and has not retrieved items, detected duplicates or changed
\* a record.
C13_OneRunPastGuard ==
    /\ Cardinality({p \in Invocations : Inside(p)}) <= 1
    /\ \A p \in Invocations :
          (run[p].pc # "idle" /\ run[p].during # {}) =>
              /\ run[p].pc = "rejected"
              /\ run[p].did = {}

\* An invocation was rejected while another one, still under way, was
\* handling the duplicates it had detected
C13_Witness ==
    \E p, q \in Invocations :
        /\ run[p].pc = "rejected"
        /\ q \in run[p].during
        /\ run[q].pc = "handling"
        /\ "mutate" \in run[q].did

\* C14: the flag is set exactly while an invocation is between the guard and
\* the end of its finally block: it is false once an admitted run has ended,
\* however it ended, a rejected invocation leaves it set for the run under
\* way, and an invocation that started when no run was under way was
\* admitted.
C14_FlagReleased ==
    /\ running <=> (\E p \in Invocations : Inside(p))
    /\ \A p \in Invocations :
          (run[p].pc = "done") =>
              run[p].exit \in {"noItems", "noRegularItems", "cancelled",
                               "error", "normal"}
    /\ \A p \in Invocations :
          (run[p].pc # "idle" /\ run[p].during = {}) => run[p].pc # "rejected"

\* A run ended with an exception, an invocation had been rejected during it,
\* and a later invocation was admitted and returned early
C14_Witness ==
    \E p, q, r \in Invocations :
        /\ run[p].pc = "done"
        /\ run[p].exit = "error"
        /\ run[q].pc = "rejected"
        /\ run[q].during = {p}
        /\ run[r].pc = "done"
        /\ run[r].exit = "cancelled"
        /\ run[r].during = {}
        /\ "retrieve" \in run[r].did
        /\ ~running

(***************************************************************************)
(* handleDetectedDuplicates, batchTagDuplicates and                         *)
(* reviewDuplicatesIndividually, run on what detectDuplicates returned for  *)
(* the first records of HandleRecords.                                      *)
(***************************************************************************)
\* Largest number of records detected and handled
MaxHandleItems ==
    4

\* ItemA occurs twice: a collection and its subcollections are retrieved
\* without removing the records found in more than one of them
HandleRecords ==
    <<ItemA, ItemF, ItemB, ItemD, ItemA>>

HandleItems(n) ==
    [k \in 1..n |-> HandleRecords[((k - 1) % Len(HandleRecords)) + 1]]

\* Date.now()
Timestamps ==
    {1, 2}

\* What prompt() returned: a text, or null
Entry(text) ==
    [cancelled |-> FALSE, text |-> text]

\* The answers to the prompt of handleDetectedDuplicates
BatchAnswers ==
    {NoInput, Entry(<<"1">>), Entry(<<" ", "2">>), Entry(<<"3">>),
     Entry(<<>>)}

\* The answers to the prompt of reviewDuplicatesIndividually
ReviewAnswers ==
    {NoInput, Entry(<<"1">>), Entry(<<"2">>), Entry(<<" ", "3">>),
     Entry(<<"4">>), Entry(<<" ", "5", " ">>), Entry(<<>>)}

InitHandle ==
    /\ pc = "normalizing"
    /\ \E n \in 0..MaxHandleItems : items = HandleItems(n)
    /\ threshold = Rat(3, 5)
    /\ weights \in {DefaultWeights, NullWeights}
    /\ useExactMatch \in BOOLEAN
    /\ useFuzzyTitle = TRUE
    /\ requireSameType = FALSE
    /\ normalizedItems = <<>>
    /\ i = 0
    /\ j = 0
    /\ comparisonsDone = 0
    /\ lastProgress = 0
    /\ progressLog = <<>>
    /\ compared = <<>>
    /\ potentialDuplicates = <<>>
    /\ result = NotReturned
    /\ handed = NotHanded
    /\ error = ""
    /\ similarity = RZero
    /\ rawWeights = weights
    /\ input = NoInput
    /\ str1 = <<>>
    /\ str2 = <<>>
    /\ distance = -1
    /\ running = FALSE
    /\ run = [p \in Invocations |-> NotInvoked]
    /\ failing \in {{}} \cup {{items[k].id} : k \in DOMAIN items}
    /\ timestamp = 0
    /\ taggedItems = {}
    /\ position = 0
    /\ presented = <<>>
    /\ answers = <<>>
    /\ library = <<>>
    /\ counts = NoCounts

\* What the handling functions leave alone
handleRest ==
    <<str1, str2, distance, running, run, failing, paramVars, normalizedItems,
      i, j, comparisonsDone, lastProgress, progressLog, compared,
      potentialDuplicates, result, handed, similarity>>

\* item1.originalItem.id and item2.originalItem.id of a candidate
original1(c) ==
    normalizedItems[c.item1].originalItem

original2(c) ==
    normalizedItems[c.item2].originalItem

\* One call on a record of the library, made while the loop was at pair;
\* threw tells that the call threw instead of taking effect
Call(op, id, tag, pair) ==
    [op |-> op, id |-> id, tag |-> tag, pair |-> pair,
     threw |-> (op # "addTag" /\ id \in failing)]

\* handleDetectedDuplicates: if (duplicates.length === 0) { alert; return }
HandleNone ==
    /\ pc = "handled"
    /\ handed.duplicates = <<>>
    /\ pc' = "finished"
    /\ UNCHANGED <<handleRest, error, timestamp, taggedItems, position,
                   presented, answers, library, counts>>

\* handleDetectedDuplicates: the prompt and the choice. batchChoice null
\* returns, 2 starts batchTagDuplicates, 3 shows the summary, anything else
\* starts reviewDuplicatesIndividually.
ChooseHandling ==
    /\ pc = "handled"
    /\ handed.duplicates # <<>>
    /\ \E batchChoice \in BatchAnswers :
          LET choice == trim(batchChoice.text)
          IN  IF batchChoice.cancelled \/ choice = <<"3">>
              THEN /\ pc' = "finished"
                   /\ UNCHANGED <<timestamp, position>>
              ELSE /\ pc' = IF choice = <<"2">> THEN "tagging" ELSE "reviewing"
                   /\ timestamp' \in Timestamps
                   /\ position' = 1
    /\ UNCHANGED <<handleRest, error, taggedItems, presented, answers,
                   library, counts>>

\* `duplicate-check-${timestamp}` and `duplicate-pair-${timestamp}`
BatchTag ==
    <<"duplicate-check", timestamp>>

PairTag ==
    <<"duplicate-pair", timestamp>>

\* A test of taggedItems that never finds a record
AlreadyTagged_Never(tagged, id) ==
    FALSE

\* taggedItems.has(original.id)
AlreadyTagged(tagged, id) ==
    id \in tagged

\* if (!taggedItems.has(original.id)) { addTag; await saveTx; add }: the
\* calls made for one record of the pair
TagCalls(tagged, id) ==
    IF AlreadyTagged(tagged, id) THEN <<>>
    ELSE <<Call("addTag", id, BatchTag, position),
           Call("saveTx", id, <<>>, position)>>

\* One run of the body of the loop of batchTagDuplicates. A saveTx that
\* throws ends the function and reaches the catch block of the main function.
BatchTagPair ==
    /\ pc = "tagging"
    /\ LET duplicate == handed.duplicates[position]
           first     == TagCalls(taggedItems, original1(duplicate))
           threw1    == first # <<>> /\ original1(duplicate) \in failing
           tagged1   == IF first = <<>> THEN taggedItems
                        ELSE taggedItems \cup {original1(duplicate)}
           second    == TagCalls(tagged1, original2(duplicate))
           threw2    == second # <<>> /\ original2(duplicate) \in failing
           tagged2   == IF second = <<>> THEN tagged1
                        ELSE tagged1 \cup {original2(duplicate)}
       IN  IF threw1
           THEN /\ library' = library \o first
                /\ pc' = "thrown"
                /\ error' = "batch"
                /\ UNCHANGED <<taggedItems, position>>
           ELSE IF threw2
           THEN /\ library' = library \o first \o second
                /\ taggedItems' = tagged1
                /\ pc' = "thrown"
                /\ error' = "batch"
                /\ UNCHANGED position
           ELSE /\ library' = library \o first \o second
                /\ taggedItems' = tagged2
                /\ position' = position + 1
                /\ pc' = IF position = Len(handed.duplicates)
                         THEN "tagged" ELSE "tagging"
                /\ UNCHANGED error
    /\ UNCHANGED <<handleRest, timestamp, presented, answers, counts>>

\* A review that only a cancelled prompt stops
StopsReview_OnCancelOnly(action) ==
    action.cancelled

\* if (action === null || action.trim() === '5') break
StopsReview(action) ==
    action.cancelled \/ trim(action.text) = <<"5">>

\* The calls of the switch of reviewDuplicatesIndividually for one choice,
\* up to and including the first call that throws
ReviewCalls(choice, duplicate) ==
    LET o1 == original1(duplicate)
        o2 == original2(duplicate)
    IN  IF choice = <<"1">>
        THEN <<Call("addTag", o1, PairTag, position),
               Call("addTag", o2, PairTag, position),
               Call("saveTx", o1, <<>>, position)>>
             \o (IF o1 \in failing THEN <<>>
                 ELSE <<Call("saveTx", o2, <<>>, position)>>)
        ELSE IF choice = <<"2">>
        THEN <<Call("trashTx", o2, <<>>, position)>>
        ELSE IF choice = <<"3">>
        THEN <<Call("trashTx", o1, <<>>, position)>>
        ELSE <<>>

\* The counters after the switch: a call that throws skips the increment
ReviewCounts(choice, calls) ==
    LET threw == \E k \in DOMAIN calls : calls[k].threw
    IN  IF threw THEN counts
        ELSE IF choice = <<"1">>
        THEN [counts EXCEPT !.tagged = @ + 2]
        ELSE IF choice \in {<<"2">>, <<"3">>}
        THEN [counts EXCEPT !.trashed = @ + 1]
        ELSE [counts EXCEPT !.skipped = @ + 1]

\* One run of the body of the loop of reviewDuplicatesIndividually: the
\* prompt for the pair, the break or the switch inside its try block, and
\* the summary when the loop ends
ReviewPair ==
    /\ pc = "reviewing"
    /\ \E action \in ReviewAnswers :
          LET duplicate == handed.duplicates[position]
              choice    == trim(action.text)
              calls     == ReviewCalls(choice, duplicate)
              processed == [counts EXCEPT !.processed = @ + 1]
          IN  /\ presented' = Append(presented, position)
              /\ answers' = Append(answers, action)
              /\ IF StopsReview(action)
                 THEN /\ counts' = processed
                      /\ pc' = "reviewed"
                      /\ UNCHANGED <<library, position>>
                 ELSE /\ library' = library \o calls
                      /\ counts' = [ReviewCounts(choice, calls)
                                       EXCEPT !.processed = @ + 1]
                      /\ position' = position + 1
                      /\ pc' = IF position = Len(handed.duplicates)
                               THEN "reviewed" ELSE "reviewing"
    /\ UNCHANGED <<handleRest, error, timestamp, taggedItems>>

NextHandle ==
    \/ Next
    \/ HandleNone
    \/ ChooseHandling
    \/ BatchTagPair
    \/ ReviewPair

SpecHandle ==
    InitHandle /\ [][NextHandle]_vars

\* The ids of the records of the pairs handed to handleDetectedDuplicates
RecordsInPairs ==
    {original1(handed.duplicates[k]) : k \in DOMAIN handed.duplicates}
    \cup {original2(handed.duplicates[k]) : k \in DOMAIN handed.duplicates}

\* The ids of the records detectDuplicates was called with
RecordIds ==
    {items[k].id : k \in DOMAIN items}

\* The places in library of the calls of op on the record id that took effect
Effective(op, id) ==
    {k \in DOMAIN library :
        /\ library[k].op = op
        /\ library[k].id = id
        /\ ~library[k].threw}

\* C16: in batch tagging, only records of the pairs are touched, the only
\* calls are addTag with the one tag of the run and saveTx, and no record is
\* tagged or saved more than once; when batchTagDuplicates has returned,
\* every record of the pairs has been tagged once and saved once.
C16_BatchTagsEachRecordOnce ==
    (pc \in {"tagging", "tagged"} \/ error = "batch") =>
        /\ \A k \in DOMAIN library :
              /\ library[k].id \in RecordsInPairs
              /\ library[k].op \in {"addTag", "saveTx"}
              /\ (library[k].op = "addTag") => (library[k].tag = BatchTag)
        /\ \A id \in RecordIds :
              /\ Cardinality(Effective("addTag", id)) <= 1
              /\ Cardinality(Effective("saveTx", id)) <= 1
              /\ (Effective("saveTx", id) # {}) =>
                     (Effective("addTag", id) # {})
        /\ (pc = "tagged") =>
              \A id \in RecordsInPairs :
                  /\ Cardinality(Effective("addTag", id)) = 1
                  /\ Cardinality(Effective("saveTx", id)) = 1

\* batchTagDuplicates has returned for three pairs over three records, each
\* record in two of the pairs, with a fourth record in no pair
C16_Witness ==
    /\ pc = "tagged"
    /\ Len(handed.duplicates) = 3
    /\ Cardinality(RecordsInPairs) = 3
    /\ Cardinality(RecordIds) = 4
    /\ Len(library) = 6

\* The calls made on the records while the loop was at pair k
CallsAt(k) ==
    SelectSeq(library, LAMBDA e : e.pair = k)

\* The answer k ended the review: the prompt was cancelled, or 5 was chosen
Stopped(k) ==
    answers[k].cancelled \/ trim(answers[k].text) = <<"5">>

\* The calls made at pair k are those of the answer given for it
ActionOfChoice(k) ==
    LET calls  == CallsAt(k)
        choice == trim(answers[k].text)
        o1     == original1(handed.duplicates[k])
        o2     == original2(handed.duplicates[k])
    IN  IF Stopped(k) THEN calls = <<>>
        ELSE IF choice = <<"1">>
        THEN /\ \A m \in DOMAIN calls :
                   /\ calls[m].op \in {"addTag", "saveTx"}
                   /\ calls[m].id \in {o1, o2}
                   /\ (calls[m].op = "addTag") => (calls[m].tag = PairTag)
             /\ {calls[m].id : m \in {n \in DOMAIN calls :
                                          calls[n].op = "addTag"}} = {o1, o2}
             /\ ({o1, o2} \cap failing = {}) =>
                   {calls[m].id : m \in {n \in DOMAIN calls :
                                          calls[n].op = "saveTx"}} = {o1, o2}
        ELSE IF choice = <<"2">>
        THEN Len(calls) = 1 /\ calls[1].op = "trashTx" /\ calls[1].id = o2
        ELSE IF choice = <<"3">>
        THEN Len(calls) = 1 /\ calls[1].op = "trashTx" /\ calls[1].id = o1
        ELSE calls = <<>>

\* C15: in individual review the pairs are presented one at a time in the
\* order of the ranked list; the calls made for a presented pair are those of
\* the one action chosen for it (1 tags both records, 2 trashes the record of
\* item 2 only, 3 the record of item 1 only, anything else nothing); the pair
\* for which 5 was chosen or the prompt cancelled is the last one presented and
\* no call is made for it or for a later pair; and without such an answer
\* every pair is presented, whether or not a call threw.
C15_ReviewActions ==
    (pc \in {"reviewing", "reviewed"}) =>
        /\ presented = [k \in 1..Len(presented) |-> k]
        /\ Len(presented) <= Len(handed.duplicates)
        /\ Len(answers) = Len(presented)
        /\ \A k \in DOMAIN library : library[k].pair \in DOMAIN presented
        /\ \A k \in DOMAIN presented :
              /\ ActionOfChoice(k)
              /\ Stopped(k) => (k = Len(presented) /\ pc = "reviewed")
        /\ (pc = "reviewing") =>
              /\ position = Len(presented) + 1
              /\ position <= Len(handed.duplicates)
        /\ (pc = "reviewed" /\ \A k \in DOMAIN presented : ~Stopped(k)) =>
              Len(presented) = Len(handed.duplicates)

\* A review of three pairs: a call for the first pair threw, the second pair
\* was presented all the same and the record of its item 2 trashed, and 5
\* was chosen for the third pair
C15_Witness ==
    /\ pc = "reviewed"
    /\ Len(presented) = 3
    /\ \E k \in DOMAIN library : library[k].pair = 1 /\ library[k].threw
    /\ trim(answers[2].text) = <<"2">>
    /\ \E k \in DOMAIN library :
          /\ library[k].pair = 2
          /\ library[k].op = "trashTx"
          /\ ~library[k].threw
    /\ answers[3] = Entry(<<" ", "5", " ">>)
    /\ \A k \in DOMAIN library : library[k].pair # 3

====
